---- MODULE Spec2Model ----
(***************************************************************************)
(* The two-pass assembler of src/src/assembler.py.                         *)
(*                                                                         *)
(* A source line is a sequence of one-character strings, so that strip,    *)
(* endswith, startswith, re.split, upper, isdigit and int(tok, 0) are      *)
(* modelled by what they do to the characters.  An assembly run is a       *)
(* state machine: pass 1 consumes one line per step, pass 2 one entry of   *)
(* the intermediate list per step, and the run ends by returning the       *)
(* image or by raising.                                                    *)
(***************************************************************************)
EXTENDS Integers, Sequences, FiniteSets, TLC

VARIABLES
    lines,         \* source.split("\n"): the lines of the source, never changed
    phase,         \* "pass1", "pass2", "done" (returned) or "failed" (raised)
    idx,           \* 1-based position of the loop of the current pass
    pc,            \* the program counter
    labels,        \* the symbol table: label name -> address
    intermediate,  \* one entry per line consumed by pass 1: its items
    final,         \* the bytes appended by pass 2
    image,         \* the value assemble returned, <<>> until it returns
    err,           \* the exception that left assemble, NoError until then
    pcTrace,       \* history: pc at the start of each line of pass 1
    pcEnd          \* history: pc at the end of pass 1, before it is reset

vars == <<lines, phase, idx, pc, labels, intermediate, final, image, err,
          pcTrace, pcEnd>>

(***************************************************************************)
(* Bounds of the checked inputs.                                           *)
(***************************************************************************)
\* longest program drawn from ProgPool
MaxLines == 3
\* most hex digits after 0x in a drawn literal
MaxHexDigits == 4
\* most digits of a drawn decimal literal
MaxDecDigits == 5
\* number of one-byte filler lines that push a label past address 255
PadLen == 256

(***************************************************************************)
(* Characters and text primitives.                                         *)
(***************************************************************************)
LowerCase == <<"a","b","c","d","e","f","g","h","i","j","k","l","m",
               "n","o","p","q","r","s","t","u","v","w","x","y","z">>
UpperCase == <<"A","B","C","D","E","F","G","H","I","J","K","L","M",
               "N","O","P","Q","R","S","T","U","V","W","X","Y","Z">>
DigitChars == <<"0","1","2","3","4","5","6","7","8","9">>

\* str.upper() on one character
UpperChar(c) ==
    IF \E k \in DOMAIN LowerCase : LowerCase[k] = c
    THEN UpperCase[CHOOSE k \in DOMAIN LowerCase : LowerCase[k] = c]
    ELSE c

\* str.lower() on one character (used only to write inputs in lower case)
LowerChar(c) ==
    IF \E k \in DOMAIN UpperCase : UpperCase[k] = c
    THEN LowerCase[CHOOSE k \in DOMAIN UpperCase : UpperCase[k] = c]
    ELSE c

\* str.upper()
Upper(s) == [k \in DOMAIN s |-> UpperChar(s[k])]

Lower(s) == [k \in DOMAIN s |-> LowerChar(s[k])]

\* the characters str.strip() removes and \s matches
IsSpace(c) == c \in {" ", "\t"}

\* the separator class [,\s] of the tokenizer
IsSep(c) == c = "," \/ IsSpace(c)

\* str.strip()
Strip(s) ==
    IF \A k \in DOMAIN s : IsSpace(s[k])
    THEN <<>>
    ELSE LET lo == CHOOSE k \in DOMAIN s :
                       ~IsSpace(s[k]) /\ \A j \in 1..(k-1) : IsSpace(s[j])
             hi == CHOOSE k \in DOMAIN s :
                       ~IsSpace(s[k]) /\ \A j \in (k+1)..Len(s) : IsSpace(s[j])
         IN  SubSeq(s, lo, hi)

\* str.endswith(":")
EndsWithColon(s) == Len(s) > 0 /\ s[Len(s)] = ":"

\* str.startswith(";")
StartsWithSemi(s) == Len(s) > 0 /\ s[1] = ";"

\* line[:-1]
DropLast(s) == SubSeq(s, 1, Len(s) - 1)

RECURSIVE SplitFrom(_, _, _)
SplitFrom(s, k, cur) ==
    IF k > Len(s) THEN <<cur>>
    ELSE IF IsSep(s[k])
         THEN IF k > 1 /\ IsSep(s[k-1])
              THEN SplitFrom(s, k + 1, cur)
              ELSE <<cur>> \o SplitFrom(s, k + 1, <<>>)
         ELSE SplitFrom(s, k + 1, Append(cur, s[k]))

\* re.split(r"[,\s]+", line): the pieces between maximal separator runs,
\* with an empty piece where the line starts or ends with a separator
Split(s) == SplitFrom(s, 1, <<>>)

\* str.isdigit() on ASCII text
IsDigitStr(s) ==
    Len(s) > 0 /\ \A k \in DOMAIN s : \E d \in DOMAIN DigitChars : DigitChars[d] = s[k]

HexChars == <<"0","1","2","3","4","5","6","7","8","9","A","B","C","D","E","F">>

IsHexChar(c) == \E d \in DOMAIN HexChars : HexChars[d] = UpperChar(c)

\* value of one digit character in bases up to 16
DigitVal(c) == (CHOOSE d \in DOMAIN HexChars : HexChars[d] = UpperChar(c)) - 1

\* re.fullmatch(r"0x[0-9A-Fa-f]+", tok)
IsHexLiteral(s) ==
    /\ Len(s) >= 3
    /\ s[1] = "0"
    /\ s[2] = "x"
    /\ \A k \in 3..Len(s) : IsHexChar(s[k])

RECURSIVE DigitsValue(_, _)
DigitsValue(s, base) ==
    IF Len(s) = 0 THEN 0
    ELSE DigitsValue(DropLast(s), base) * base + DigitVal(s[Len(s)])

IsDigitsOf(s, base) ==
    Len(s) > 0 /\ \A k \in DOMAIN s : IsHexChar(s[k]) /\ DigitVal(s[k]) < base

\* the unsigned part of int(tok, 0): a 0x/0o/0b prefix selects the base;
\* without a prefix the text is decimal and may not start with 0 unless it
\* is all zeros.  (Underscore digit grouping is not modelled; no drawn
\* input contains an underscore.)
ParseUnsigned(s) ==
    LET prefixed(p) == Len(s) >= 2 /\ s[1] = "0" /\ UpperChar(s[2]) = p
        rest == SubSeq(s, 3, Len(s))
        base == IF prefixed("X") THEN 16
                ELSE IF prefixed("O") THEN 8
                ELSE IF prefixed("B") THEN 2 ELSE 10
    IN  IF base # 10
        THEN IF IsDigitsOf(rest, base)
             THEN [ok |-> TRUE, v |-> DigitsValue(rest, base)]
             ELSE [ok |-> FALSE, v |-> 0]
        ELSE IF IsDigitStr(s) /\ (s[1] # "0" \/ \A k \in DOMAIN s : s[k] = "0")
             THEN [ok |-> TRUE, v |-> DigitsValue(s, 10)]
             ELSE [ok |-> FALSE, v |-> 0]

\* int(tok, 0): an optional sign, then ParseUnsigned
ParseInt0(s) ==
    IF Len(s) > 0 /\ s[1] \in {"+", "-"}
    THEN LET u == ParseUnsigned(SubSeq(s, 2, Len(s)))
         IN  [ok |-> u.ok, v |-> IF s[1] = "-" THEN 0 - u.v ELSE u.v]
    ELSE ParseUnsigned(s)

(***************************************************************************)
(* Bit operations on Python integers.                                      *)
(***************************************************************************)
RECURSIVE Pow2(_)
Pow2(n) == IF n = 0 THEN 1 ELSE 2 * Pow2(n - 1)

\* x << n
Shl(x, n) == x * Pow2(n)

\* x >> n  (floor division, as Python shifts a negative integer)
Shr(x, n) == x \div Pow2(n)

\* x & (2^n - 1)
LowBits(x, n) == x % Pow2(n)

RECURSIVE BitOr(_, _)
\* a | b on non-negative integers
BitOr(a, b) ==
    IF a = 0 THEN b
    ELSE IF b = 0 THEN a
    ELSE 2 * BitOr(a \div 2, b \div 2) + (IF a % 2 = 1 \/ b % 2 = 1 THEN 1 ELSE 0)

(***************************************************************************)
(* The opcode and register tables.                                         *)
(***************************************************************************)
OP ==
    (<<"S","E","T">> :> 0) @@ (<<"L","D">> :> 1) @@ (<<"S","T">> :> 2) @@
    (<<"A","N","D">> :> 3) @@ (<<"A","D","D">> :> 4) @@ (<<"N","O","T">> :> 5) @@
    (<<"J","P">> :> 6) @@ (<<"C","H","G">> :> 7)

NamedREG ==
    (<<"P","C","L">> :> 0) @@ (<<"P","C","H">> :> 1) @@
    (<<"A">> :> 2) @@ (<<"B">> :> 3) @@ (<<"C">> :> 4) @@ (<<"D">> :> 5) @@
    (<<"P","O","I","N","T","E","R","L">> :> 6) @@
    (<<"P","O","I","N","T","E","R","H">> :> 7) @@
    (<<"S","T","A","T","U","S","L">> :> 8) @@
    (<<"S","T","A","T","U","S","H">> :> 9) @@
    (<<"I","R">> :> 10) @@
    (<<"J","U","M","P","L">> :> 12) @@ (<<"J","U","M","P","H">> :> 13)

\* f"{i}" for 0 <= i <= 99
DecStr(i) ==
    IF i < 10 THEN <<DigitChars[i + 1]>>
    ELSE <<DigitChars[(i \div 10) + 1], DigitChars[(i % 10) + 1]>>

\* f"R{i}"
RName(i) == <<"R">> \o DecStr(i)

\* the register table after the R0..R15 aliases are added; an alias
\* assignment would overwrite a named entry of the same key
REG ==
    LET aliases == {RName(i) : i \in 0..15}
        num(n) == CHOOSE i \in 0..15 : RName(i) = n
    IN  [n \in aliases \cup DOMAIN NamedREG |->
            IF n \in aliases THEN num(n) ELSE NamedREG[n]]

(***************************************************************************)
(* Encoded items, errors and the instruction encoder.                      *)
(***************************************************************************)
\* a resolved byte of the intermediate list
Byte(v) == [tag |-> "BYTE", v |-> v]

\* the tuple ("LABEL", name, want_high)
LabelRef(name, high) == [tag |-> "LABEL", name |-> name, high |-> high]

NoError == [exc |-> "none", msg |-> "", arg |-> <<>>]

\* a raised exception: its class, the fixed part of its message, its argument
Raise(exc, msg, arg) ==
    [raised |-> TRUE, items |-> <<>>, err |-> [exc |-> exc, msg |-> msg, arg |-> arg]]

Return(items) == [raised |-> FALSE, items |-> items, err |-> NoError]

\* EncodeRegOp with the nibbles exchanged: (opcode << 4) | register
EncodeRegOpSwapped(instr, parts) ==
    IF Len(parts) < 2 THEN Raise("IndexError", "list index out of range", <<>>)
    ELSE LET regname == Upper(parts[2])
         IN  IF regname \notin DOMAIN REG THEN Raise("KeyError", "", regname)
             ELSE Return(<<Byte(BitOr(Shl(OP[instr], 4), REG[regname]))>>)

\* EncodeJP that ignores the test value and always encodes a test for zero
EncodeJPFixed(parts) ==
    IF Len(parts) < 2 THEN Raise("IndexError", "list index out of range", <<>>)
    ELSE IF ~ParseInt0(parts[2]).ok
         THEN Raise("ValueError", "invalid literal for int()", parts[2])
    ELSE Return(<<Byte(BitOr(OP[<<"J","P">>], Shl(LowBits(ParseInt0(parts[2]).v, 3), 4)))>>)

\* the SET branch of assemble_line
EncodeSET(parts) ==
    IF Len(parts) < 3 THEN Raise("IndexError", "list index out of range", <<>>)
    ELSE
    LET regname   == Upper(parts[2])
        imm_token == parts[3]
        suffix    == Upper(parts[4])
        badSuffix == Len(parts) = 4 /\ suffix \notin {<<"H">>, <<"L">>}
        want_high == Len(parts) = 4 /\ suffix = <<"H">>
        isNumber  == IsHexLiteral(imm_token) \/ IsDigitStr(imm_token)
        parsed    == ParseInt0(imm_token)
        imm       == IF isNumber
                     THEN IF want_high
                          THEN Byte(LowBits(Shr(parsed.v, 8), 8))
                          ELSE Byte(LowBits(parsed.v, 8))
                     ELSE LabelRef(imm_token, want_high)
    IN  IF badSuffix THEN Raise("ValueError", "Invalid SET suffix", parts[4])
        ELSE IF isNumber /\ ~parsed.ok
             THEN Raise("ValueError", "invalid literal for int()", imm_token)
        ELSE IF regname \notin DOMAIN REG THEN Raise("KeyError", "", regname)
        ELSE Return(<<Byte(BitOr(Shl(REG[regname], 4), OP[<<"S","E","T">>])), imm>>)

\* the JP branch of assemble_line
EncodeJP(parts) ==
    IF Len(parts) < 2 THEN Raise("IndexError", "list index out of range", <<>>)
    ELSE IF ~ParseInt0(parts[2]).ok
         THEN Raise("ValueError", "invalid literal for int()", parts[2])
    ELSE IF Len(parts) < 3 THEN Raise("IndexError", "list index out of range", <<>>)
    ELSE IF ~ParseInt0(parts[3]).ok
         THEN Raise("ValueError", "invalid literal for int()", parts[3])
    ELSE
    LET bitpos == LowBits(ParseInt0(parts[2]).v, 3)
        value  == LowBits(ParseInt0(parts[3]).v, 1)
        opcode == OP[<<"J","P">>]
    IN  Return(<<Byte(BitOr(BitOr(opcode, Shl(value, 7)), Shl(bitpos, 4)))>>)

\* the one-byte register branch of assemble_line
EncodeRegOp(instr, parts) ==
    IF Len(parts) < 2 THEN Raise("IndexError", "list index out of range", <<>>)
    ELSE LET regname == Upper(parts[2])
         IN  IF regname \notin DOMAIN REG THEN Raise("KeyError", "", regname)
             ELSE Return(<<Byte(BitOr(Shl(REG[regname], 4), OP[instr]))>>)

\* assemble_line(line, labels, pc); labels and pc are not read by the code
AssembleLine(raw) ==
    LET line  == Strip(raw)
        parts == Split(line)
        instr == Upper(parts[1])
    IN  IF Len(line) = 0 \/ StartsWithSemi(line) THEN Return(<<>>)
        ELSE IF EndsWithColon(line) THEN Return(<<>>)
        ELSE IF instr = <<"S","E","T">> THEN EncodeSET(parts)
        ELSE IF instr = <<"J","P">> THEN EncodeJP(parts)
        ELSE IF instr \in DOMAIN OP THEN EncodeRegOp(instr, parts)
        ELSE Raise("ValueError", "Unknown instruction", line)

\* Fixup that appends the low byte whatever half was requested
FixupLowOnly(item, addr) == LowBits(addr, 8)

\* the byte a deferred label reference resolves to in pass 2
Fixup(item, addr) ==
    IF item.high THEN LowBits(Shr(addr, 8), 8) ELSE LowBits(addr, 8)

(***************************************************************************)
(* The assembly run: assemble(source).                                     *)
(***************************************************************************)
\* Bind that records the address after the current one
BindOffByOne(tbl, lbl, addr) ==
    [n \in DOMAIN tbl \cup {lbl} |-> IF n = lbl THEN addr + 1 ELSE tbl[n]]

\* Bind that starts a new table at every definition
BindOnly(tbl, lbl, addr) == [n \in {lbl} |-> addr]

\* labels[lbl] = pc on a dict
Bind(tbl, lbl, addr) ==
    [n \in DOMAIN tbl \cup {lbl} |-> IF n = lbl THEN addr ELSE tbl[n]]

\* the items of one intermediate entry that are deferred references to a
\* label missing from the table, by position
Missing(inst, tbl) ==
    {k \in DOMAIN inst : inst[k].tag = "LABEL" /\ inst[k].name \notin DOMAIN tbl}

\* the byte pass 2 appends for one item
Resolve(item, tbl) ==
    IF item.tag = "LABEL" THEN Fixup(item, tbl[item.name]) ELSE item.v

\* the bytes pass 2 appends for the first n items of an entry
ResolveUpTo(inst, n, tbl) == [k \in 1..n |-> Resolve(inst[k], tbl)]

\* the line of the first-pass loop after line.strip(), and its label name
CurLine == Strip(lines[idx])

\* first pass, label branch (lines 133-137)
Pass1Label ==
    /\ phase = "pass1"
    /\ idx <= Len(lines)
    /\ EndsWithColon(CurLine)
    /\ labels' = Bind(labels, DropLast(CurLine), pc)
    /\ intermediate' = Append(intermediate, <<>>)
    /\ pcTrace' = Append(pcTrace, pc)
    /\ idx' = idx + 1
    /\ UNCHANGED <<lines, phase, pc, final, image, err, pcEnd>>

\* first pass, instruction branch (lines 139-142)
Pass1Line ==
    /\ phase = "pass1"
    /\ idx <= Len(lines)
    /\ ~EndsWithColon(CurLine)
    /\ LET r == AssembleLine(CurLine)
       IN  /\ ~r.raised
           /\ pc' = pc + Len(r.items)
           /\ intermediate' = Append(intermediate, r.items)
    /\ pcTrace' = Append(pcTrace, pc)
    /\ idx' = idx + 1
    /\ UNCHANGED <<lines, phase, labels, final, image, err, pcEnd>>

\* first pass, assemble_line raises: the exception leaves assemble
Pass1Raise ==
    /\ phase = "pass1"
    /\ idx <= Len(lines)
    /\ ~EndsWithColon(CurLine)
    /\ LET r == AssembleLine(CurLine)
       IN  /\ r.raised
           /\ err' = r.err
    /\ phase' = "failed"
    /\ UNCHANGED <<lines, idx, pc, labels, intermediate, final, image, pcTrace, pcEnd>>

\* between the loops (lines 147-151): final = [], pc = 0
StartPass2 ==
    /\ phase = "pass1"
    /\ idx > Len(lines)
    /\ phase' = "pass2"
    /\ final' = <<>>
    /\ pcEnd' = pc
    /\ pc' = 0
    /\ idx' = 1
    /\ UNCHANGED <<lines, labels, intermediate, image, err, pcTrace>>

\* Pass2Inst that appends two bytes, low then high, for a label reference
Pass2InstTwoByteFixup ==
    /\ phase = "pass2"
    /\ idx <= Len(intermediate)
    /\ LET inst == intermediate[idx]
           refs == {k \in DOMAIN inst : inst[k].tag = "LABEL"}
           wide(k) == IF k \in refs
                      THEN <<LowBits(labels[inst[k].name], 8),
                             LowBits(Shr(labels[inst[k].name], 8), 8)>>
                      ELSE <<inst[k].v>>
           out == IF Len(inst) = 0 THEN <<>>
                  ELSE IF Len(inst) = 1 THEN wide(1) ELSE wide(1) \o wide(2)
       IN  /\ Missing(inst, labels) = {}
           /\ final' = final \o out
           /\ pc' = pc + Len(out)
    /\ idx' = idx + 1
    /\ UNCHANGED <<lines, phase, labels, intermediate, image, err, pcTrace, pcEnd>>

\* second pass, one entry of intermediate with every label found (153-178)
Pass2Inst ==
    /\ phase = "pass2"
    /\ idx <= Len(intermediate)
    /\ LET inst == intermediate[idx]
       IN  /\ Missing(inst, labels) = {}
           /\ final' = final \o ResolveUpTo(inst, Len(inst), labels)
           /\ pc' = pc + Len(inst)
    /\ idx' = idx + 1
    /\ UNCHANGED <<lines, phase, labels, intermediate, image, err, pcTrace, pcEnd>>

\* Pass2Raise that appends a zero for the missing label and goes on
Pass2RaiseAsZero ==
    /\ phase = "pass2"
    /\ idx <= Len(intermediate)
    /\ LET inst == intermediate[idx]
           miss == Missing(inst, labels)
       IN  /\ miss # {}
           /\ final' = final \o [k \in DOMAIN inst |->
                                    IF k \in miss THEN 0 ELSE Resolve(inst[k], labels)]
           /\ pc' = pc + Len(inst)
    /\ idx' = idx + 1
    /\ UNCHANGED <<lines, phase, labels, intermediate, image, err, pcTrace, pcEnd>>

\* second pass, an entry with a label that is not in the table (159-160):
\* the items before it are appended, then the exception leaves assemble
Pass2Raise ==
    /\ phase = "pass2"
    /\ idx <= Len(intermediate)
    /\ LET inst == intermediate[idx]
           miss == Missing(inst, labels)
           k    == CHOOSE j \in miss : \A i \in miss : j <= i
       IN  /\ miss # {}
           /\ final' = final \o ResolveUpTo(inst, k - 1, labels)
           /\ pc' = pc + (k - 1)
           /\ err' = [exc |-> "ValueError", msg |-> "Undefined label",
                      arg |-> inst[k].name]
    /\ phase' = "failed"
    /\ UNCHANGED <<lines, idx, labels, intermediate, image, pcTrace, pcEnd>>

\* return final (line 180)
Finish ==
    /\ phase = "pass2"
    /\ idx > Len(intermediate)
    /\ image' = final
    /\ phase' = "done"
    /\ UNCHANGED <<lines, idx, pc, labels, intermediate, final, err, pcTrace, pcEnd>>

(***************************************************************************)
(* The sources the run is checked on.                                      *)
(***************************************************************************)
\* all texts of 1..n characters over an alphabet
Texts(alphabet, n) == UNION {[1..k -> alphabet] : k \in 1..n}

\* every sequence of at most n lines of a pool, but at least one line:
\* source.split("\n") never returns an empty list
Programs(pool, n) == UNION {[1..k -> pool] : k \in 1..n}

\* three ways of writing a word: upper case, lower case, alternating
Styles == {"upper", "lower", "mixed"}

Styled(w, style) ==
    IF style = "upper" THEN Upper(w)
    ELSE IF style = "lower" THEN Lower(w)
    ELSE [k \in DOMAIN w |-> IF k % 2 = 1 THEN UpperChar(w[k]) ELSE LowerChar(w[k])]

\* the mnemonics of OP that take one register and emit one byte
RegOnlyMnemonics == DOMAIN OP \ {<<"S","E","T">>, <<"J","P">>}

RegOnlyLine(m, r, style) == Styled(m, style) \o <<" ">> \o Styled(r, style)

RegOnlyLines ==
    {RegOnlyLine(m, r, st) : m \in RegOnlyMnemonics, r \in DOMAIN REG, st \in Styles}

HexAlphabet == {"0", "1", "a", "F"}
DecAlphabet == {"0", "2", "5"}

HexLiterals == {<<"0","x">> \o d : d \in Texts(HexAlphabet, MaxHexDigits)}
DecLiterals == Texts(DecAlphabet, MaxDecDigits)
Literals == HexLiterals \cup DecLiterals

\* the ways of writing the half selector of SET: none, L, H, h
Selectors == {<<>>, <<" ","L">>, <<" ","H">>, <<","," ","h">>}

SetLine(lit, sel) == <<"S","E","T"," ","A">> \o <<","," ">> \o lit \o sel

SetLiteralLines == {SetLine(lit, sel) : lit \in Literals, sel \in Selectors}

JpLine(b, v, style) ==
    Styled(<<"J","P">>, style) \o <<" ">> \o DecStr(b) \o <<","," ">> \o DecStr(v)

JpLines == {JpLine(b, v, st) : b \in 0..7, v \in 0..1, st \in {"upper", "lower"}}

\* lines that take the remaining paths of assemble_line
OtherLines ==
    { <<"S","E","T"," ","A">>, <<"S","E","T"," ","Q",","," ","5">>, <<"S","E","T"," ","A",","," ","5"," ","Q">>, <<"S","E","T"," ","A",","," ","0","X","1","0">>, <<"L","D">>, <<"L","D"," ","Q">>, <<"J","P"," ","x",","," ","1">>, <<"J","P"," ","3">>, <<"J","P"," ","9",","," ","3">>,
      <<"J","P"," ","-","1",","," ","0","x","3">>, <<"F","O","O"," ","A">>, <<",","L","D"," ","A">>, <<"S","T"," ","B"," ",";"," ","n","o","t","e">>, <<"\t","a","d","d","\t","r","1","0","\t">>, <<"S","E","T"," ","A",","," ","0","x","1","F","0"," ","H"," ",";"," ","h","i","g","h">> }

\* one-line sources that exercise the encoder
EncoderSources ==
    {<<l>> : l \in RegOnlyLines \cup SetLiteralLines \cup JpLines \cup OtherLines}

LineBlank == <<>>
LineComment == <<" ",";"," ","n","o","t","e">>
LineCommentColon == <<";"," ","L","O","O","P",":">>
LineLoopDef == <<"L","O","O","P",":">>
LineSetLoop == <<"S","E","T"," ","A",","," ","L","O","O","P">>
LineSetLoopH == <<"S","E","T"," ","B",",","L","O","O","P"," ","H">>
LineSetEndL == <<"s","e","t"," ","c",","," ","E","N","D"," ","l">>
LineLdA == <<"L","D"," ","A">>
LineLdaA == <<"L","D","A"," ","A">>
LineJp == <<"J","P"," ","3",","," ","1">>

\* the lines short programs are made of
ProgPool ==
    { LineBlank, LineComment, LineCommentColon, LineLoopDef, LineSetLoop,
      LineSetLoopH, LineSetEndL, LineLdA, LineLdaA, LineJp }

ProgramSources == Programs(ProgPool, MaxLines)

LineSetLoopL == <<"S","E","T"," ","D",","," ","L","O","O","P"," ","L">>

\* the lines placed around a run of filler lines
PadPool == {LineLoopDef, LineSetLoop, LineSetLoopH, LineSetLoopL}

Around == {<<>>} \cup {<<l>> : l \in PadPool}

\* PadLen one-byte lines, so that what follows starts past address 255
Padding == [k \in 1..PadLen |-> LineLdA]

PaddedSources == {h \o Padding \o t : h \in Around, t \in Around}

\* the scenario START: / SET A, 0x10 / LDA A, and the same with LD A
ScenarioLDA == << <<"S","T","A","R","T",":">>, <<"S","E","T"," ","A",","," ","0","x","1","0">>, <<"L","D","A"," ","A">> >>
ScenarioLD == << <<"S","T","A","R","T",":">>, <<"S","E","T"," ","A",","," ","0","x","1","0">>, <<"L","D"," ","A">> >>

Sources ==
    ProgramSources \cup EncoderSources \cup PaddedSources \cup {ScenarioLDA, ScenarioLD}

Init ==
    /\ lines \in Sources
    /\ phase = "pass1"
    /\ idx = 1
    /\ pc = 0
    /\ labels = <<>>
    /\ intermediate = <<>>
    /\ final = <<>>
    /\ image = <<>>
    /\ err = NoError
    /\ pcTrace = <<>>
    /\ pcEnd = 0

Next ==
    \/ Pass1Label
    \/ Pass1Line
    \/ Pass1Raise
    \/ StartPass2
    \/ Pass2Inst
    \/ Pass2Raise
    \/ Finish

Spec == Init /\ [][Next]_vars

(***************************************************************************)
(* Vocabulary of the properties, read off the source text and the          *)
(* recorded program counters rather than off the encoder's own results.    *)
(***************************************************************************)
RECURSIVE EmittedBefore(_)
\* the number of bytes emitted by the lines before line i
EmittedBefore(i) ==
    IF i <= 1 THEN 0 ELSE EmittedBefore(i - 1) + Len(intermediate[i - 1])

\* the lines that define the label called name
DefLines(name) == {j \in DOMAIN lines : Strip(lines[j]) = name \o <<":">>}

\* a blank line or a line whose first non-space character is ;
IsBlankOrComment(l) == Len(Strip(l)) = 0 \/ StartsWithSemi(Strip(l))

\* line i was encoded as SET with a deferred reference to the label name
IsSetRef(i, name) ==
    /\ i \in DOMAIN intermediate
    /\ Len(intermediate[i]) = 2
    /\ intermediate[i][2].tag = "LABEL"
    /\ intermediate[i][2].name = name

\* the selector written on line i is H (in either case)
WritesH(i) ==
    LET l == Strip(lines[i])
    IN  Len(l) > 0 /\ l[Len(l)] \in {"H", "h"} /\ IsSep(l[Len(l) - 1])

\* the requested half of an address, by arithmetic
HalfOf(a, high) == IF high THEN (a \div 256) % 256 ELSE a % 256

\* the program counter after line i of pass 1, for a line already processed
PcAfterPass1(i) ==
    IF i < Len(pcTrace) THEN pcTrace[i + 1]
    ELSE IF phase = "pass1" THEN pc ELSE pcEnd

\* the label name a line refers to when it encodes as SET with a label
\* operand, as a set of at most one name
RefNames(l) ==
    LET r == AssembleLine(l)
    IN  IF /\ ~EndsWithColon(Strip(l))
           /\ ~r.raised
           /\ Len(r.items) = 2
           /\ r.items[2].tag = "LABEL"
        THEN {r.items[2].name}
        ELSE {}

\* the label names that SET lines of the source refer to and no line defines
UndefinedRefs ==
    {n \in UNION {RefNames(lines[k]) : k \in DOMAIN lines} : DefLines(n) = {}}

\* every line of the source encodes without an error
AllLinesEncode ==
    \A k \in DOMAIN lines :
        EndsWithColon(Strip(lines[k])) \/ ~AssembleLine(lines[k]).raised

\* the first line, in source order, that refers to an undefined label
FirstUndefinedRef ==
    CHOOSE i \in DOMAIN lines :
        /\ \E n \in UndefinedRefs : IsSetRef(i, n)
        /\ \A j \in 1..(i - 1) : ~\E n \in UndefinedRefs : IsSetRef(j, n)

UndefinedLabel(n) == [exc |-> "ValueError", msg |-> "Undefined label", arg |-> n]

(***************************************************************************)
(* C1: when assembly succeeds, every SET line that refers to a label       *)
(* defined exactly once gets the requested half of the number of bytes     *)
(* emitted by the lines before the definition, whether the SET line is     *)
(* before or after the definition; the label is bound to that number.      *)
(***************************************************************************)
C1_LabelResolvesToDefinitionPc ==
    phase = "done" =>
        \A n \in DOMAIN labels :
            Cardinality(DefLines(n)) = 1 =>
                LET j == CHOOSE d \in DefLines(n) : TRUE
                    a == EmittedBefore(j)
                IN  /\ labels[n] = a
                    /\ \A i \in DOMAIN lines :
                          IsSetRef(i, n) =>
                              image[EmittedBefore(i) + 2] = HalfOf(a, WritesH(i))

\* a finished run with a reference before and a reference after the single
\* definition of a label whose address is not 0
C1_Witness ==
    /\ phase = "done"
    /\ \E n \in DOMAIN labels :
          /\ Cardinality(DefLines(n)) = 1
          /\ labels[n] > 0
          /\ \E i, k \in DOMAIN lines, j \in DefLines(n) :
                i < j /\ j < k /\ IsSetRef(i, n) /\ IsSetRef(k, n)

(***************************************************************************)
(* C2 as stated: a source with a SET line whose label X is never defined   *)
(* never returns an image, and its run fails with UndefinedLabel naming X. *)
(***************************************************************************)
C2_AlwaysUndefinedLabelNamingX ==
    phase \in {"done", "failed"} =>
        \A n \in UndefinedRefs :
            /\ phase = "failed"
            /\ err = UndefinedLabel(n)

(***************************************************************************)
(* C2 amended: a source with a SET line whose label is never defined       *)
(* never returns an image and never emits a byte for that reference; when  *)
(* every line encodes in pass 1 the run fails with UndefinedLabel naming   *)
(* the first undefined label referenced in source order, and otherwise     *)
(* with the pass-1 error.                                                  *)
(***************************************************************************)
C2_UndefinedLabelNeverYieldsImage ==
    (phase \in {"done", "failed"} /\ UndefinedRefs # {}) =>
        /\ phase = "failed"
        /\ image = <<>>
        /\ err # NoError
        /\ AllLinesEncode =>
              /\ err = UndefinedLabel(intermediate[FirstUndefinedRef][2].name)
              /\ Len(final) = EmittedBefore(FirstUndefinedRef) + 1
        /\ ~AllLinesEncode => err.msg # "Undefined label"

\* a run that failed on the first of two different undefined labels
C2_Witness ==
    /\ phase = "failed"
    /\ err.msg = "Undefined label"
    /\ Cardinality(UndefinedRefs) >= 2
    /\ err.arg \in UndefinedRefs

(***************************************************************************)
(* C3 as stated: START: / SET A, 0x10 / LDA A assembles to the image       *)
(* [0x20, 0x10, 0x21] and binds START to 0.                                *)
(***************************************************************************)
C3_ScenarioAssembles ==
    (lines = ScenarioLDA /\ phase \in {"done", "failed"}) =>
        /\ phase = "done"
        /\ image = <<32, 16, 33>>
        /\ labels = (<<"S","T","A","R","T">> :> 0)

LiteralValue(lit) ==
    IF lit \in HexLiterals THEN DigitsValue(SubSeq(lit, 3, Len(lit)), 16)
    ELSE DigitsValue(lit, 10)

(***************************************************************************)
(* C5 as stated: for every 16-bit v written as a decimal or 0x literal,    *)
(* SET A, v assembles to [0x20, v mod 256] without a selector or with L,   *)
(* and to [0x20, (v div 256) mod 256] with H.                              *)
(***************************************************************************)
C5_SetLiteralEncoding ==
    (Len(lines) = 1 /\ lines[1] \in SetLiteralLines /\ phase \in {"done", "failed"}) =>
        \A lit \in Literals, sel \in Selectors :
            (lines[1] = SetLine(lit, sel) /\ LiteralValue(lit) < 65536) =>
                /\ phase = "done"
                /\ image = <<32, HalfOf(LiteralValue(lit), Upper(sel) \in {<<" ","H">>, <<","," ","H">>})>>

(***************************************************************************)
(* C6: when assembly succeeds, a SET line that refers to a label bound to  *)
(* a occupies two bytes, and its second byte is (a div 256) mod 256 when   *)
(* the line is written with selector H and a mod 256 when it is written    *)
(* with selector L or without a selector.                                  *)
(***************************************************************************)
C6_LabelHalfSelection ==
    phase = "done" =>
        \A i \in DOMAIN lines :
            \A n \in DOMAIN labels :
                IsSetRef(i, n) =>
                    /\ PcAfterPass1(i) = pcTrace[i] + 2
                    /\ image[pcTrace[i] + 2] =
                          IF WritesH(i) THEN (labels[n] \div 256) % 256
                          ELSE labels[n] % 256

\* a finished run in which an H reference to a label above address 255
\* produced a high byte different from the low byte
C6_Witness ==
    /\ phase = "done"
    /\ \E n \in DOMAIN labels, i \in DOMAIN lines :
          /\ labels[n] > 255
          /\ IsSetRef(i, n)
          /\ WritesH(i)
          /\ image[pcTrace[i] + 2] = 1
          /\ labels[n] % 256 # 1

(***************************************************************************)
(* C7 as stated: a blank line, or a line whose first non-space character   *)
(* is ; whatever follows it, emits no item, leaves the program counter     *)
(* unchanged and adds no entry to the symbol table.                        *)
(***************************************************************************)
C7_BlankAndCommentLinesAreInert ==
    \A i \in DOMAIN intermediate :
        IsBlankOrComment(lines[i]) =>
            /\ intermediate[i] = <<>>
            /\ PcAfterPass1(i) = pcTrace[i]
            /\ \A n \in DOMAIN labels : Strip(lines[i]) # n \o <<":">>

(***************************************************************************)
(* C8: JP b, v with b in 0..7 and v in 0..1 assembles to one byte with     *)
(* bit 7 = v, bits 6-4 = b and bits 3-0 = the JP opcode, and never to a    *)
(* deferred label reference.                                               *)
(***************************************************************************)
C8_BranchEncoding ==
    (Len(lines) = 1 /\ lines[1] \in JpLines /\ phase \in {"pass2", "done", "failed"}) =>
        \A b \in 0..7, v \in 0..1, st \in {"upper", "lower"} :
            lines[1] = JpLine(b, v, st) =>
                /\ phase # "failed"
                /\ Len(intermediate[1]) = 1
                /\ intermediate[1][1].tag = "BYTE"
                /\ phase = "done" =>
                      /\ Len(image) = 1
                      /\ image[1] \div 128 = v
                      /\ (image[1] \div 16) % 8 = b
                      /\ image[1] % 16 = OP[<<"J","P">>]

\* JP 3, 1 has assembled to 0x80 | (3 << 4) | 6
C8_Witness ==
    /\ phase = "done"
    /\ lines = <<JpLine(3, 1, "upper")>>
    /\ image = <<182>>

(***************************************************************************)
(* C9: in pass 2 the program counter at the start of each line equals the  *)
(* one pass 1 had at the start of that line, and a returned image is as    *)
(* long as the program counter pass 1 ended with.  (Stated for every run   *)
(* that reaches pass 2, which covers every run that succeeds.)             *)
(***************************************************************************)
C9_PassesAgreeOnProgramCounter ==
    /\ (phase = "pass2" /\ idx <= Len(lines)) => pc = pcTrace[idx]
    /\ phase \in {"pass2", "done"} => Len(final) = pc
    /\ phase = "done" => (Len(image) = pcEnd /\ pc = pcEnd)

\* a finished run that resolved a label reference and emitted bytes after it
C9_Witness ==
    /\ phase = "done"
    /\ Len(image) >= 4
    /\ \E i \in DOMAIN lines, n \in DOMAIN labels :
          IsSetRef(i, n) /\ i < Len(lines) /\ Len(intermediate[Len(lines)]) > 0

(***************************************************************************)
(* C10 as stated: once a label is bound, no later step of the run changes  *)
(* or removes the binding.                                                 *)
(***************************************************************************)
C10_BindingsNeverChange ==
    [][\A n \in DOMAIN labels : n \in DOMAIN labels' /\ labels'[n] = labels[n]]_vars

(***************************************************************************)
(* C10 amended: a binding is never removed and never changed by pass 2;    *)
(* in pass 1 it is changed only by a later line that defines the same      *)
(* name, which rebinds the name to the program counter at that line.       *)
(***************************************************************************)
C10_BindingsChangeOnlyByRedefinition ==
    [][\A n \in DOMAIN labels :
          /\ n \in DOMAIN labels'
          /\ labels'[n] # labels[n] =>
                /\ phase = "pass1"
                /\ idx <= Len(lines)
                /\ Strip(lines[idx]) = n \o <<":">>
                /\ labels'[n] = pc]_vars

\* a finished run in which a label ended bound to another address than the
\* one its first definition line gave it
C10_Witness ==
    /\ phase = "done"
    /\ \E n \in DOMAIN labels, j \in DOMAIN lines :
          j \in DefLines(n) /\ pcTrace[j] # labels[n]

====
